---------------------------- MODULE Spec2Model ----------------------------
(***************************************************************************)
(* Model of the texture synchronizer of src-tauri/src/commands/sync.rs:    *)
(* the path policy (should_skip_path, is_disabled_file, get_disabled_path, *)
(* get_enabled_path), the local scan, the plan computed by run_sync and    *)
(* its execution (downloads, then deletions).                              *)
(*                                                                         *)
(* A path is a sequence of one-character strings, so that the string       *)
(* operations of the source (rfind, starts_with, contains, slicing) are    *)
(* modelled by what they do on the characters.  A file map (HashMap) is a  *)
(* function from paths to content ids.  Option<String> is a sequence of    *)
(* length 0 (None) or 1 (Some).                                            *)
(***************************************************************************)
EXTENDS Integers, Sequences, FiniteSets, TLC

(***************************************************************************)
(* Bounds of the model.                                                    *)
(***************************************************************************)
\* largest number of files in the remote tree
MaxRemote == 2
\* largest number of files on the local disk when run_sync starts
MaxLocal == 2
\* content ids are 1..MaxSha
MaxSha == 2
\* largest number of segments of a path handed to the path functions
MaxSegs == 3
\* largest number of invocations of run_sync one after the other
MaxRuns == 2
\* largest revision number of the remote head
MaxHead == 2

(***************************************************************************)
(* String helpers (Rust str methods used by the source).                   *)
(***************************************************************************)
\* str::contains(needle)
Contains(s, needle) ==
    \E i \in 1..(Len(s) - Len(needle) + 1) :
        SubSeq(s, i, i + Len(needle) - 1) = needle

\* str::starts_with(c) for a single character c
StartsWith(s, c) == Len(s) >= 1 /\ s[1] = c

\* s[from..] with a 1-based first index
SliceFrom(s, from) == SubSeq(s, from, Len(s))

\* str::rfind(c): 1-based index of the last occurrence of c, 0 for None
RFindChar(s, c) ==
    LET hits == {i \in 1..Len(s) : s[i] = c}
    IN  IF hits = {} THEN 0 ELSE CHOOSE i \in hits : \A j \in hits : j <= i

\* str::rfind("/-"): 1-based index of the last occurrence of "/-", 0 for None
RFindSlashDash(s) ==
    LET hits == {i \in 1..(Len(s) - 1) : s[i] = "/" /\ s[i + 1] = "-"}
    IN  IF hits = {} THEN 0 ELSE CHOOSE i \in hits : \A j \in hits : j <= i

\* path.rsplit('/').next().unwrap_or(path): the last segment of the path
LastSegment(path) == SliceFrom(path, RFindChar(path, "/") + 1)

\* Option<String>
None == <<>>
Some(x) == <<x>>

(***************************************************************************)
(* Path policy.                                                            *)
(***************************************************************************)
UserCustoms == <<"u", "s", "e", "r", "-", "c", "u", "s", "t", "o", "m", "s">>

\* variant: the path is compared with the folder name instead of searched for it
should_skip_path_ExactMatch(path) == path = UserCustoms

should_skip_path(path) == Contains(path, UserCustoms)

is_disabled_file(filename) == StartsWith(filename, "-")

get_disabled_path(path) ==
    LET pos == RFindChar(path, "/")
    IN  IF pos # 0
        THEN SubSeq(path, 1, pos) \o <<"-">> \o SliceFrom(path, pos + 1)
        ELSE <<"-">> \o path

\* variant: the marker at the start of the path is looked for before "/-"
get_enabled_path_PrefixFirst(path) ==
    IF StartsWith(path, "-")
    THEN Some(SliceFrom(path, 2))
    ELSE LET pos == RFindSlashDash(path)
         IN  IF pos # 0
             THEN Some(SubSeq(path, 1, pos) \o SliceFrom(path, pos + 2))
             ELSE None

get_enabled_path(path) ==
    LET pos == RFindSlashDash(path)
    IN  IF pos # 0
        THEN Some(SubSeq(path, 1, pos) \o SliceFrom(path, pos + 2))
        ELSE IF StartsWith(path, "-")
             THEN Some(SliceFrom(path, 2))
             ELSE None


(***************************************************************************)
(* State.                                                                  *)
(***************************************************************************)
VARIABLES
    remote,             \* the remote subtree at the head revision: path -> id
    head,               \* the head revision of the remote
    disk,               \* regular files under the sync root: path -> id
    dirs,               \* directories under the sync root; <<>> is the root
    pc,                 \* position of run_sync
    remote_files,       \* run_sync: remote_files
    commit_sha,         \* run_sync: commit_sha
    local_files,        \* run_sync: local_files
    files_to_download,  \* run_sync: files_to_download
    files_to_delete,    \* run_sync: files_to_delete
    files_skipped,      \* run_sync: files_skipped
    downloaded,         \* run_sync: downloaded (also the index of the download loop)
    del_idx,            \* run_sync: index i of the delete loop
    deleted,            \* run_sync: deleted
    result,             \* Ok(SyncResult) returned by run_sync, None before
    err,                \* Err(message) returned by run_sync, None before
    disk0,              \* history: the files on disk when run_sync started
    p1, p2,             \* inputs of the path functions
    d1, d2,             \* get_disabled_path(p1), get_disabled_path(p2)
    e1,                 \* result of get_enabled_path
    pstep,              \* which path function has been applied
    events,             \* the sync-progress events run_sync has emitted
    dropped,            \* how many of these emissions failed to be delivered
    window_ok,          \* the window delivers the events emitted to it
    run,                \* number of the current invocation of run_sync
    status,             \* Ok(SyncStatusResult) of the last check_sync_status
    fpc,                \* position of fetch_github_tree
    nav_idx,            \* get_subtree_sha: components of SPARSE_PATH walked
    stack,              \* fetch_tree_files_recursive: the calls in progress
    file_map,           \* fetch_github_tree: file_map
    trunc               \* history: the trees whose recursive listing was truncated

syncVars == <<remote, head, disk, dirs, pc, remote_files, commit_sha,
              local_files, files_to_download, files_to_delete, files_skipped,
              downloaded, del_idx, deleted, result, err, disk0>>
pathVars == <<p1, p2, d1, d2, e1, pstep>>
emitVars == <<events, dropped>>
envVars == <<window_ok, run, status>>
fetchVars == <<fpc, nav_idx, stack, file_map, trunc>>
vars == <<syncVars, pathVars, emitVars, envVars, fetchVars>>

(***************************************************************************)
(* Paths and file maps of the model.                                       *)
(***************************************************************************)
\* "a", "-a", "--a", "d/a", "d/-a", "user-customs/a"
PathA == <<"a">>
PathDA == <<"-", "a">>
PathDDA == <<"-", "-", "a">>
PathSubA == <<"d", "/", "a">>
PathSubDA == <<"d", "/", "-", "a">>
PathCustomA == UserCustoms \o <<"/", "a">>

\* the paths a remote tree is drawn from
RemotePaths == {PathA, PathDA, PathSubA, PathCustomA}
\* the paths the files on disk are drawn from
DiskPaths == {PathA, PathDA, PathDDA, PathSubA, PathSubDA, PathCustomA}

Shas == 1..MaxSha

EmptyMap == [p \in {} |-> 0]

\* all maps from at most n of the paths to content ids
FileMaps(paths, n) ==
    UNION {[S -> Shas] : S \in {T \in SUBSET paths : Cardinality(T) <= n}}

\* all orders in which a HashMap can iterate over the keys S
Orders(S) ==
    {f \in [1..Cardinality(S) -> S] : \A i, j \in DOMAIN f : f[i] = f[j] => i = j}

(***************************************************************************)
(* Filesystem helpers.                                                     *)
(***************************************************************************)
RootDir == <<>>

\* Path::parent of slus_path.join(path), relative to slus_path
Parent(path) ==
    LET pos == RFindChar(path, "/")
    IN  IF pos = 0 THEN RootDir ELSE SubSeq(path, 1, pos - 1)

\* the directories fs::create_dir_all(parent) makes sure exist
AncestorDirs(path) ==
    {RootDir} \cup {SubSeq(path, 1, i - 1) : i \in {j \in 1..Len(path) : path[j] = "/"}}

\* fs::remove_dir succeeds only on an empty directory
DirIsEmpty(d, files, ds) ==
    /\ \A f \in DOMAIN files : Parent(f) # d
    /\ \A e \in ds : e # RootDir => Parent(e) # d

\* an entry whose name starts with '.' is skipped by the scan, with all below it
HasHiddenSegment(path) ==
    \/ StartsWith(path, ".")
    \/ \E i \in 1..(Len(path) - 1) : path[i] = "/" /\ path[i + 1] = "."

\* build_local_file_map_recursive: the keys inserted into file_map
ScannedPaths(files) ==
    {f \in DOMAIN files : ~HasHiddenSegment(f) /\ ~should_skip_path(f)}

build_local_file_map(files) == [f \in ScannedPaths(files) |-> files[f]]

(***************************************************************************)
(* The plan of run_sync (lines 407-468).                                   *)
(***************************************************************************)
\* variant: the comparison of the plain local copy is inverted
DownloadDecision_InvertedCompare(path, remote_sha, local) ==
    IF should_skip_path(path)
    THEN [push |-> <<>>, skip |-> 1]
    ELSE IF path \in DOMAIN local /\ local[path] # remote_sha
    THEN [push |-> <<>>, skip |-> 0]
    ELSE LET disabled_path == get_disabled_path(path)
         IN  IF disabled_path \in DOMAIN local
             THEN IF local[disabled_path] = remote_sha
                  THEN [push |-> <<>>, skip |-> 1]
                  ELSE [push |-> <<disabled_path>>, skip |-> 0]
             ELSE [push |-> <<path>>, skip |-> 0]

\* variant: a stale disabled copy is refreshed at the plain path
DownloadDecision_StaleToPlain(path, remote_sha, local) ==
    IF should_skip_path(path)
    THEN [push |-> <<>>, skip |-> 1]
    ELSE IF path \in DOMAIN local /\ local[path] = remote_sha
    THEN [push |-> <<>>, skip |-> 0]
    ELSE LET disabled_path == get_disabled_path(path)
         IN  IF disabled_path \in DOMAIN local
             THEN IF local[disabled_path] = remote_sha
                  THEN [push |-> <<>>, skip |-> 1]
                  ELSE [push |-> <<path>>, skip |-> 0]
             ELSE [push |-> <<path>>, skip |-> 0]

\* variant: a disabled copy is refreshed whether or not its id is the remote's
DownloadDecision_AlwaysRefreshDisabled(path, remote_sha, local) ==
    IF should_skip_path(path)
    THEN [push |-> <<>>, skip |-> 1]
    ELSE IF path \in DOMAIN local /\ local[path] = remote_sha
    THEN [push |-> <<>>, skip |-> 0]
    ELSE LET disabled_path == get_disabled_path(path)
         IN  IF disabled_path \in DOMAIN local
             THEN [push |-> <<disabled_path>>, skip |-> 0]
             ELSE [push |-> <<path>>, skip |-> 0]

\* one iteration of the loop over remote_files: what is pushed to
\* files_to_download and what is added to files_skipped
DownloadDecision(path, remote_sha, local) ==
    IF should_skip_path(path)
    THEN [push |-> <<>>, skip |-> 1]
    ELSE IF path \in DOMAIN local /\ local[path] = remote_sha
    THEN [push |-> <<>>, skip |-> 0]
    ELSE LET disabled_path == get_disabled_path(path)
         IN  IF disabled_path \in DOMAIN local
             THEN IF local[disabled_path] = remote_sha
                  THEN [push |-> <<>>, skip |-> 1]
                  ELSE [push |-> <<disabled_path>>, skip |-> 0]
             ELSE [push |-> <<path>>, skip |-> 0]

\* variant: a disabled file is not looked up in the remote under its enabled name
DeleteDecision_NoDisabledLookup(path, remote_f) ==
    IF should_skip_path(path)
    THEN <<>>
    ELSE IF path \in DOMAIN remote_f
    THEN <<>>
    ELSE <<path>>

\* variant: every disabled file is kept, whether or not the remote has its enabled name
DeleteDecision_KeepsEveryDisabled(path, remote_f) ==
    IF should_skip_path(path)
    THEN <<>>
    ELSE IF path \in DOMAIN remote_f
    THEN <<>>
    ELSE IF is_disabled_file(LastSegment(path)) /\ get_enabled_path(path) # None
    THEN <<>>
    ELSE <<path>>

\* one iteration of the loop over local_files.keys(): what is pushed to
\* files_to_delete
DeleteDecision(path, remote_f) ==
    IF should_skip_path(path)
    THEN <<>>
    ELSE IF path \in DOMAIN remote_f
    THEN <<>>
    ELSE IF /\ is_disabled_file(LastSegment(path))
            /\ get_enabled_path(path) # None
            /\ get_enabled_path(path)[1] \in DOMAIN remote_f
    THEN <<>>
    ELSE <<path>>

\* the loop over remote_files, in the iteration order `order`
RECURSIVE PlanDownloads(_, _, _)
PlanDownloads(order, remote_f, local) ==
    IF order = <<>>
    THEN [list |-> <<>>, skipped |-> 0]
    ELSE LET this == DownloadDecision(Head(order), remote_f[Head(order)], local)
             rest == PlanDownloads(Tail(order), remote_f, local)
         IN  [list |-> this.push \o rest.list, skipped |-> this.skip + rest.skipped]

\* the loop over local_files.keys(), in the iteration order `order`
RECURSIVE PlanDeletes(_, _)
PlanDeletes(order, remote_f) ==
    IF order = <<>>
    THEN <<>>
    ELSE DeleteDecision(Head(order), remote_f) \o PlanDeletes(Tail(order), remote_f)

\* the source path of a download (lines 505-509)
SourcePath(path) ==
    IF is_disabled_file(LastSegment(path))
    THEN IF get_enabled_path(path) # None THEN get_enabled_path(path)[1] ELSE path
    ELSE path

(***************************************************************************)
(* run_sync, one action per step.                                          *)
(***************************************************************************)
\* Err(message): the kind of message and the path the message contains
Error(kind, path) == Some([kind |-> kind, path |-> path])

Fail(kind, path) ==
    /\ pc' = "failed"
    /\ err' = Error(kind, path)

\* SyncProgressPayload without its message: a stage event and an item event
StageEvent(stage) == [stage |-> stage, current |-> None, total |-> None]
\* variant: the item events carry the 0-based index of the loop
ItemEvent_ZeroBased(stage, current, total) ==
    [stage |-> stage, current |-> Some(current - 1), total |-> Some(total)]

ItemEvent(stage, current, total) ==
    [stage |-> stage, current |-> Some(current), total |-> Some(total)]

\* variant: the result of the emission is checked, and run_sync goes on only
\* when the event was delivered
Emit_Checked(evs) ==
    /\ window_ok
    /\ events' = events \o evs
    /\ dropped' = dropped

\* let _ = window.emit("sync-progress", ...) for each of the events in turn:
\* the result of the emission is discarded
Emit(evs) ==
    /\ events' = events \o evs
    /\ dropped' = IF window_ok THEN dropped ELSE dropped + Len(evs)

\* fetch_github_tree succeeds (line 370)
Fetch ==
    /\ pc = "fetching"
    /\ Emit(<<StageEvent("fetching"), StageEvent("scanning"), StageEvent("scanning")>>)
    /\ remote_files' = remote
    /\ commit_sha' = head
    /\ pc' = "scanning"
    /\ UNCHANGED <<remote, head, disk, dirs, local_files, files_to_download,
                   files_to_delete, files_skipped, downloaded, del_idx, deleted,
                   result, err, disk0, pathVars, envVars, fetchVars>>

\* fetch_github_tree fails (line 370, the ? operator)
FetchFail ==
    /\ pc = "fetching"
    /\ Emit(<<StageEvent("fetching")>>)
    /\ Fail("GitHub API error", None)
    /\ UNCHANGED <<remote, head, disk, dirs, remote_files, commit_sha, local_files,
                   files_to_download, files_to_delete, files_skipped, downloaded,
                   del_idx, deleted, result, disk0, pathVars, envVars, fetchVars>>

\* build_local_file_map (line 394): fails when the sync root is absent
Scan ==
    /\ pc = "scanning"
    /\ IF RootDir \notin dirs
       THEN /\ Fail("folder not found", None)
            /\ UNCHANGED <<local_files, emitVars>>
       ELSE /\ local_files' = build_local_file_map(disk)
            /\ Emit(<<StageEvent("scanning")>>)
            /\ pc' = "comparing"
            /\ UNCHANGED err
    /\ UNCHANGED <<remote, head, disk, dirs, remote_files, commit_sha,
                   files_to_download, files_to_delete, files_skipped, downloaded,
                   del_idx, deleted, result, disk0, pathVars, envVars, fetchVars>>

\* build_local_file_map fails on a directory or file read error
ScanFail ==
    /\ pc = "scanning"
    /\ RootDir \in dirs
    /\ Fail("Failed to read", None)
    /\ UNCHANGED emitVars
    /\ UNCHANGED <<remote, head, disk, dirs, remote_files, commit_sha, local_files,
                   files_to_download, files_to_delete, files_skipped, downloaded,
                   del_idx, deleted, result, disk0, pathVars, envVars, fetchVars>>

\* the two planning loops (lines 407-471)
Compare ==
    /\ pc = "comparing"
    /\ Emit(<<StageEvent("comparing")>>)
    /\ \E ro \in Orders(DOMAIN remote_files), lo \in Orders(DOMAIN local_files) :
          /\ files_to_download' = PlanDownloads(ro, remote_files, local_files).list
          /\ files_skipped' = PlanDownloads(ro, remote_files, local_files).skipped
          /\ files_to_delete' = PlanDeletes(lo, remote_files)
    /\ pc' = "exec"
    /\ UNCHANGED <<remote, head, disk, dirs, remote_files, commit_sha, local_files,
                   downloaded, del_idx, deleted, result, err, disk0, pathVars, envVars, fetchVars>>

\* one iteration of the download loop (lines 493-514), download_file succeeding:
\* the content of the source path at the head of the remote is written to the
\* destination, after its parent directories are created
Download ==
    /\ pc = "exec"
    /\ downloaded < Len(files_to_download)
    /\ Emit(<<ItemEvent("downloading", downloaded + 1, Len(files_to_download))>>)
    /\ LET path == files_to_download[downloaded + 1]
           source_path == SourcePath(path)
       IN  /\ source_path \in DOMAIN remote
           /\ disk' = [f \in DOMAIN disk \cup {path} |->
                          IF f = path THEN remote[source_path] ELSE disk[f]]
           /\ dirs' = dirs \cup AncestorDirs(path)
    /\ downloaded' = downloaded + 1
    /\ UNCHANGED <<remote, head, pc, remote_files, commit_sha, local_files,
                   files_to_download, files_to_delete, files_skipped, del_idx,
                   deleted, result, err, disk0, pathVars, envVars, fetchVars>>

\* variant: a failed download is recorded and the loop goes on to the next item
DownloadFail_Continues ==
    /\ pc = "exec"
    /\ downloaded < Len(files_to_download)
    /\ Emit(<<ItemEvent("downloading", downloaded + 1, Len(files_to_download))>>)
    /\ err' = Error("Failed to download file", None)
    /\ downloaded' = downloaded + 1
    /\ UNCHANGED <<remote, head, disk, dirs, pc, remote_files, commit_sha,
                   local_files, files_to_download, files_to_delete, files_skipped,
                   del_idx, deleted, result, disk0, pathVars, envVars, fetchVars>>

\* one iteration of the download loop, download_file failing (lines 311-350);
\* the text of a failed request names the URL, which ends with the source path:
\* the request fails, the status is not a success (always so when the source
\* path is not in the remote), the body cannot be read, the directory cannot
\* be created, or the file cannot be written
DownloadFail ==
    /\ pc = "exec"
    /\ downloaded < Len(files_to_download)
    /\ Emit(<<ItemEvent("downloading", downloaded + 1, Len(files_to_download))>>)
    /\ LET path == files_to_download[downloaded + 1]
           source_path == SourcePath(path)
       IN  \/ /\ Fail("Failed to download file", Some(source_path))
              /\ UNCHANGED dirs
           \/ /\ Fail("Failed to download: HTTP", Some(source_path))
              /\ UNCHANGED dirs
           \/ /\ source_path \in DOMAIN remote
              /\ Fail("Failed to read file content", None)
              /\ UNCHANGED dirs
           \/ /\ source_path \in DOMAIN remote
              /\ Fail("Failed to create directory", None)
              /\ UNCHANGED dirs
           \/ /\ source_path \in DOMAIN remote
              /\ Fail("Failed to write file", None)
              /\ dirs' = dirs \cup AncestorDirs(path)
    /\ UNCHANGED <<remote, head, disk, remote_files, commit_sha, local_files,
                   files_to_download, files_to_delete, files_skipped, downloaded,
                   del_idx, deleted, result, disk0, pathVars, envVars, fetchVars>>

\* variant: the delete loop does not wait for the download loop to finish
Delete_BeforeDownloads ==
    /\ pc = "exec"
    /\ del_idx < Len(files_to_delete)
    /\ Emit(<<ItemEvent("deleting", del_idx + 1, Len(files_to_delete))>>)
    /\ LET path == files_to_delete[del_idx + 1]
           left == [f \in DOMAIN disk \ {path} |-> disk[f]]
       IN  IF path \in DOMAIN disk
           THEN /\ disk' = left
                /\ deleted' = deleted + 1
                /\ dirs' = IF DirIsEmpty(Parent(path), left, dirs)
                           THEN dirs \ {Parent(path)}
                           ELSE dirs
           ELSE UNCHANGED <<disk, deleted, dirs>>
    /\ del_idx' = del_idx + 1
    /\ UNCHANGED <<remote, head, pc, remote_files, commit_sha, local_files,
                   files_to_download, files_to_delete, files_skipped, downloaded,
                   result, err, disk0, pathVars, envVars, fetchVars>>

\* one iteration of the delete loop (lines 519-541), remove_file succeeding or
\* the file being absent; the parent directory is removed when left empty
Delete ==
    /\ pc = "exec"
    /\ downloaded = Len(files_to_download)
    /\ del_idx < Len(files_to_delete)
    /\ Emit(<<ItemEvent("deleting", del_idx + 1, Len(files_to_delete))>>)
    /\ LET path == files_to_delete[del_idx + 1]
           left == [f \in DOMAIN disk \ {path} |-> disk[f]]
       IN  IF path \in DOMAIN disk
           THEN /\ disk' = left
                /\ deleted' = deleted + 1
                /\ dirs' = IF DirIsEmpty(Parent(path), left, dirs)
                           THEN dirs \ {Parent(path)}
                           ELSE dirs
           ELSE UNCHANGED <<disk, deleted, dirs>>
    /\ del_idx' = del_idx + 1
    /\ UNCHANGED <<remote, head, pc, remote_files, commit_sha, local_files,
                   files_to_download, files_to_delete, files_skipped, downloaded,
                   result, err, disk0, pathVars, envVars, fetchVars>>

\* one iteration of the delete loop, remove_file failing (lines 532-533)
DeleteFail ==
    /\ pc = "exec"
    /\ downloaded = Len(files_to_download)
    /\ del_idx < Len(files_to_delete)
    /\ Emit(<<ItemEvent("deleting", del_idx + 1, Len(files_to_delete))>>)
    /\ files_to_delete[del_idx + 1] \in DOMAIN disk
    /\ Fail("Failed to delete", Some(files_to_delete[del_idx + 1]))
    /\ UNCHANGED <<remote, head, disk, dirs, remote_files, commit_sha, local_files,
                   files_to_download, files_to_delete, files_skipped, downloaded,
                   del_idx, deleted, result, disk0, pathVars, envVars, fetchVars>>

\* both loops are over: Ok(SyncResult) (lines 557-562)
Complete ==
    /\ pc = "exec"
    /\ downloaded = Len(files_to_download)
    /\ del_idx = Len(files_to_delete)
    /\ Emit(<<StageEvent("complete")>>)
    /\ result' = Some([files_downloaded |-> downloaded,
                       files_deleted |-> deleted,
                       files_skipped |-> files_skipped,
                       new_commit_sha |-> commit_sha])
    /\ pc' = "done"
    /\ UNCHANGED <<remote, head, disk, dirs, remote_files, commit_sha, local_files,
                   files_to_download, files_to_delete, files_skipped, downloaded,
                   del_idx, deleted, err, disk0, pathVars, envVars, fetchVars>>

\* the directories of a consistent disk: the root and every ancestor of a file
DirsOf(files) == {RootDir} \cup UNION {AncestorDirs(f) : f \in DOMAIN files}

\* the values of run_sync's locals before it runs
SyncLocalsInit ==
    /\ remote_files = EmptyMap
    /\ commit_sha = 0
    /\ local_files = EmptyMap
    /\ files_to_download = <<>>
    /\ files_to_delete = <<>>
    /\ files_skipped = 0
    /\ downloaded = 0
    /\ del_idx = 0
    /\ deleted = 0
    /\ result = None
    /\ err = None

\* nothing emitted, no earlier invocation, the window open, no fetch in progress
EmitInit ==
    /\ events = <<>>
    /\ dropped = 0

EnvInit ==
    /\ window_ok = TRUE
    /\ run = 1
    /\ status = None

FetchIdle ==
    /\ fpc = "idle"
    /\ nav_idx = 0
    /\ stack = <<>>
    /\ file_map = EmptyMap
    /\ trunc = {}

PathIdle ==
    /\ p1 = <<>>
    /\ p2 = <<>>
    /\ d1 = <<>>
    /\ d2 = <<>>
    /\ e1 = None
    /\ pstep = "idle"

\* run_sync is invoked on any remote tree and any local disk; the sync root
\* holds files, is empty, or is absent
Init ==
    /\ remote \in FileMaps(RemotePaths, MaxRemote)
    /\ head = 1
    /\ \/ /\ disk \in FileMaps(DiskPaths, MaxLocal)
          /\ dirs = DirsOf(disk)
       \/ /\ disk = EmptyMap
          /\ dirs = {}
    /\ disk0 = disk
    /\ pc = "fetching"
    /\ SyncLocalsInit
    /\ PathIdle
    /\ EmitInit
    /\ EnvInit
    /\ FetchIdle

Next ==
    \/ Fetch
    \/ FetchFail
    \/ Scan
    \/ ScanFail
    \/ Compare
    \/ Download
    \/ DownloadFail
    \/ Delete
    \/ DeleteFail
    \/ Complete

Spec == Init /\ [][Next]_vars

(***************************************************************************)
(* run_sync invoked again after it has succeeded.                          *)
(***************************************************************************)
\* the caller invokes run_sync again on the same textures_dir: the locals,
\* the result and the events are those of the new invocation
Rerun ==
    /\ pc = "done"
    /\ run < MaxRuns
    /\ run' = run + 1
    /\ pc' = "fetching"
    /\ remote_files' = EmptyMap
    /\ commit_sha' = 0
    /\ local_files' = EmptyMap
    /\ files_to_download' = <<>>
    /\ files_to_delete' = <<>>
    /\ files_skipped' = 0
    /\ downloaded' = 0
    /\ del_idx' = 0
    /\ deleted' = 0
    /\ result' = None
    /\ err' = None
    /\ disk0' = disk
    /\ events' = <<>>
    /\ dropped' = 0
    /\ UNCHANGED <<remote, head, disk, dirs, window_ok, status, pathVars, fetchVars>>

NextRerun ==
    \/ Next
    \/ Rerun

SpecRerun == Init /\ [][NextRerun]_vars

(***************************************************************************)
(* The remote and the window changing while run_sync runs.                 *)
(***************************************************************************)
\* a smaller choice of paths for the specifications with an environment
SmallRemotePaths == {PathA, PathSubA, PathCustomA}
SmallDiskPaths == {PathA, PathDA, PathCustomA}

InitSmall ==
    /\ remote \in FileMaps(SmallRemotePaths, MaxRemote)
    /\ head = 1
    /\ \/ /\ disk \in FileMaps(SmallDiskPaths, MaxLocal)
          /\ dirs = DirsOf(disk)
       \/ /\ disk = EmptyMap
          /\ dirs = {}
    /\ disk0 = disk
    /\ pc = "fetching"
    /\ SyncLocalsInit
    /\ PathIdle
    /\ EmitInit
    /\ EnvInit
    /\ FetchIdle

\* a commit is pushed to the main branch: the head moves to a new revision
\* with another tree
AdvanceHead ==
    /\ head < MaxHead
    /\ head' = head + 1
    /\ remote' \in FileMaps(SmallRemotePaths, MaxRemote) \ {remote}
    /\ UNCHANGED <<disk, dirs, pc, remote_files, commit_sha, local_files,
                   files_to_download, files_to_delete, files_skipped, downloaded,
                   del_idx, deleted, result, err, disk0, pathVars, emitVars,
                   envVars, fetchVars>>

NextHead ==
    \/ Next
    \/ AdvanceHead

SpecHead == InitSmall /\ [][NextHead]_vars

\* the window is closed, or opened again: emissions fail while it is closed
ToggleWindow ==
    /\ pc \notin {"done", "failed"}
    /\ window_ok' = ~window_ok
    /\ UNCHANGED <<syncVars, pathVars, emitVars, run, status, fetchVars>>

NextEmit ==
    \/ Next
    \/ ToggleWindow

SpecEmit == InitSmall /\ [][NextEmit]_vars

(***************************************************************************)
(* fetch_github_tree request by request (lines 108-252).  A tree of the    *)
(* repository is named by the directory it stands for, relative to the     *)
(* subtree SPARSE_PATH; the files below that subtree are `remote`.         *)
(***************************************************************************)
\* SPARSE_PATH.split('/')
SparseParts == <<"textures", "SLUS-XXXXX">>

\* file or directory e lies below directory dir
IsUnder(dir, e) ==
    \/ dir = RootDir /\ e # RootDir
    \/ /\ Len(e) > Len(dir) + 1
       /\ SubSeq(e, 1, Len(dir)) = dir
       /\ e[Len(dir) + 1] = "/"

\* the path of e as the listing of tree dir gives it
RelativeTo(dir, e) ==
    IF dir = RootDir THEN e ELSE SliceFrom(e, Len(dir) + 2)

\* TreeEntry: sha holds the content id of a blob, tree the directory that the
\* sha of a tree entry names
BlobEntry(dir, f, id) ==
    [path |-> RelativeTo(dir, f), type |-> "blob", sha |-> id, tree |-> RootDir]

TreeEntry(dir, d) ==
    [path |-> RelativeTo(dir, d), type |-> "tree", sha |-> 0, tree |-> d]

\* the entries GET git/trees/{sha}?recursive=1 returns when nothing is cut off
RecursiveListing(files, dir) ==
    {BlobEntry(dir, f, files[f]) : f \in {g \in DOMAIN files : IsUnder(dir, g)}}
        \cup {TreeEntry(dir, d) :
                 d \in {c \in UNION {AncestorDirs(f) : f \in DOMAIN files} :
                           IsUnder(dir, c)}}

\* the entries GET git/trees/{sha} returns: the children of the tree
Listing(files, dir) ==
    {en \in RecursiveListing(files, dir) : ~Contains(en.path, <<"/">>)}

\* variant: the key is the entry's own path, without base_path
EntryPath_NoBase(base_path, path) == path

\* entry_path (lines 208-212 and 224-228)
EntryPath(base_path, path) ==
    IF base_path = <<>> THEN path ELSE base_path \o <<"/">> \o path

\* file_map after file_map.insert(entry_path, entry.sha) for each blob entry
InsertBlobs(map, base_path, entries) ==
    LET blobs == {en \in entries : en.type = "blob"}
        keys == {EntryPath(base_path, en.path) : en \in blobs}
    IN  [k \in DOMAIN map \cup keys |->
            IF k \in keys
            THEN (CHOOSE en \in blobs : EntryPath(base_path, en.path) = k).sha
            ELSE map[k]]

\* a call of fetch_tree_files_recursive(client, tree_sha, base_path, file_map):
\* at "start" before the recursive request, at "fallback" before the
\* non-recursive one, at "iter" in the loop over its entries
Frame(tree_sha, base_path) ==
    [tree_sha |-> tree_sha, base_path |-> base_path, at |-> "start", todo |-> <<>>]

Top == stack[Len(stack)]
Pop == SubSeq(stack, 1, Len(stack) - 1)
ReplaceTop(fr) == Pop \o <<fr>>

\* run_sync emits the first event and calls fetch_github_tree (lines 358-370)
FetchStart ==
    /\ pc = "fetching"
    /\ fpc = "idle"
    /\ Emit(<<StageEvent("fetching")>>)
    /\ fpc' = "commit"
    /\ UNCHANGED <<syncVars, pathVars, envVars, nav_idx, stack, file_map, trunc>>

\* get_latest_commit returns the head of main (lines 108-137)
GetLatestCommit ==
    /\ pc = "fetching"
    /\ fpc = "commit"
    /\ fpc' = "navigate"
    /\ UNCHANGED <<syncVars, pathVars, emitVars, envVars, nav_idx, stack, file_map, trunc>>

\* get_subtree_sha: one round of the loop over the parts finds its entry;
\* after the last part fetch_tree_files_recursive(subtree_sha, "") is called
Navigate ==
    /\ pc = "fetching"
    /\ fpc = "navigate"
    /\ nav_idx < Len(SparseParts)
    /\ nav_idx' = nav_idx + 1
    /\ IF nav_idx + 1 = Len(SparseParts)
       THEN /\ fpc' = "listing"
            /\ stack' = <<Frame(RootDir, <<>>)>>
       ELSE UNCHANGED <<fpc, stack>>
    /\ UNCHANGED <<syncVars, pathVars, emitVars, envVars, file_map, trunc>>

\* get_subtree_sha: the listing holds no tree entry with the name of the part
NavigateNotFound ==
    /\ pc = "fetching"
    /\ fpc = "navigate"
    /\ nav_idx < Len(SparseParts)
    /\ fpc' = "failed"
    /\ Fail("Path component not found", None)
    /\ UNCHANGED <<remote, head, disk, dirs, remote_files, commit_sha, local_files,
                   files_to_download, files_to_delete, files_skipped, downloaded,
                   del_idx, deleted, result, disk0, pathVars, emitVars, envVars,
                   nav_idx, stack, file_map, trunc>>

\* a request is about to be sent: the revision lookup, a listing of the
\* navigation, or the recursive or non-recursive listing of a tree
RequestPending ==
    \/ fpc \in {"commit", "navigate"}
    \/ fpc = "listing" /\ stack # <<>> /\ Top.at \in {"start", "fallback"}

\* variant: the failed request ends the traversal, and what file_map holds by
\* then is returned as the remote mapping
RequestFail_ReturnsPartial ==
    /\ pc = "fetching"
    /\ RequestPending
    /\ fpc' = "failed"
    /\ remote_files' = file_map
    /\ commit_sha' = head
    /\ pc' = "scanning"
    /\ UNCHANGED <<remote, head, disk, dirs, local_files, err,
                   files_to_download, files_to_delete, files_skipped, downloaded,
                   del_idx, deleted, result, disk0, pathVars, emitVars, envVars,
                   nav_idx, stack, file_map, trunc>>

\* the response is not a success (lines 122-128 and 160-166), or the request
\* or the parsing of its body fails: the ? operators pass the error up to
\* run_sync, and file_map is dropped
RequestFail ==
    /\ pc = "fetching"
    /\ RequestPending
    /\ fpc' = "failed"
    /\ Fail("GitHub API error", None)
    /\ UNCHANGED <<remote, head, disk, dirs, remote_files, commit_sha, local_files,
                   files_to_download, files_to_delete, files_skipped, downloaded,
                   del_idx, deleted, result, disk0, pathVars, emitVars, envVars,
                   nav_idx, stack, file_map, trunc>>

\* fetch_tree_files_recursive: the recursive listing is complete, every blob
\* entry is inserted and the call returns (lines 221-232)
ListComplete ==
    /\ pc = "fetching"
    /\ fpc = "listing"
    /\ stack # <<>>
    /\ Top.at = "start"
    /\ file_map' = InsertBlobs(file_map, Top.base_path,
                               RecursiveListing(remote, Top.tree_sha))
    /\ stack' = Pop
    /\ UNCHANGED <<syncVars, pathVars, emitVars, envVars, fpc, nav_idx, trunc>>

\* the recursive listing is marked truncated (line 202)
ListTruncated ==
    /\ pc = "fetching"
    /\ fpc = "listing"
    /\ stack # <<>>
    /\ Top.at = "start"
    /\ stack' = ReplaceTop([Top EXCEPT !.at = "fallback"])
    /\ trunc' = trunc \cup {Top.tree_sha}
    /\ UNCHANGED <<syncVars, pathVars, emitVars, envVars, fpc, nav_idx, file_map>>

\* the non-recursive listing of the same tree arrives (line 204)
ListFallback ==
    /\ pc = "fetching"
    /\ fpc = "listing"
    /\ stack # <<>>
    /\ Top.at = "fallback"
    /\ \E order \in Orders(Listing(remote, Top.tree_sha)) :
          stack' = ReplaceTop([Top EXCEPT !.at = "iter", !.todo = order])
    /\ UNCHANGED <<syncVars, pathVars, emitVars, envVars, fpc, nav_idx, file_map, trunc>>

\* one round of the loop over tree_non_recursive.tree (lines 206-219): a blob
\* is inserted, a tree is fetched by a nested call
IterEntry ==
    /\ pc = "fetching"
    /\ fpc = "listing"
    /\ stack # <<>>
    /\ Top.at = "iter"
    /\ Top.todo # <<>>
    /\ LET entry == Head(Top.todo)
           entry_path == EntryPath(Top.base_path, entry.path)
           rest == [Top EXCEPT !.todo = Tail(Top.todo)]
       IN  IF entry.type = "blob"
           THEN /\ file_map' = InsertBlobs(file_map, Top.base_path, {entry})
                /\ stack' = ReplaceTop(rest)
           ELSE /\ stack' = ReplaceTop(rest) \o <<Frame(entry.tree, entry_path)>>
                /\ UNCHANGED file_map
    /\ UNCHANGED <<syncVars, pathVars, emitVars, envVars, fpc, nav_idx, trunc>>

\* the loop is over, the call returns Ok(()) (line 234)
IterReturn ==
    /\ pc = "fetching"
    /\ fpc = "listing"
    /\ stack # <<>>
    /\ Top.at = "iter"
    /\ Top.todo = <<>>
    /\ stack' = Pop
    /\ UNCHANGED <<syncVars, pathVars, emitVars, envVars, fpc, nav_idx, file_map, trunc>>

\* fetch_github_tree returns Ok((file_map, commit_sha)) to run_sync, which
\* emits the two scanning events (lines 251, 370-392)
FetchReturn ==
    /\ pc = "fetching"
    /\ fpc = "listing"
    /\ stack = <<>>
    /\ fpc' = "returned"
    /\ remote_files' = file_map
    /\ commit_sha' = head
    /\ pc' = "scanning"
    /\ Emit(<<StageEvent("scanning"), StageEvent("scanning")>>)
    /\ UNCHANGED <<remote, head, disk, dirs, local_files, err,
                   files_to_download, files_to_delete, files_skipped, downloaded,
                   del_idx, deleted, result, disk0, pathVars, envVars,
                   nav_idx, stack, file_map, trunc>>

PathDeepA == <<"d", "/", "e", "/", "a">>
FetchRemotePaths == {PathA, PathSubA, PathDeepA}

InitFetch ==
    /\ remote \in FileMaps(FetchRemotePaths, MaxRemote)
    /\ head = 1
    /\ disk \in FileMaps({PathA, PathDA}, MaxLocal)
    /\ dirs = DirsOf(disk)
    /\ disk0 = disk
    /\ pc = "fetching"
    /\ SyncLocalsInit
    /\ PathIdle
    /\ EmitInit
    /\ EnvInit
    /\ FetchIdle

NextFetch ==
    \/ FetchStart
    \/ GetLatestCommit
    \/ Navigate
    \/ NavigateNotFound
    \/ RequestFail
    \/ ListComplete
    \/ ListTruncated
    \/ ListFallback
    \/ IterEntry
    \/ IterReturn
    \/ FetchReturn
    \/ Scan
    \/ ScanFail
    \/ Compare
    \/ Download
    \/ DownloadFail
    \/ Delete
    \/ DeleteFail
    \/ Complete

SpecFetch == InitFetch /\ [][NextFetch]_vars

(***************************************************************************)
(* run_sync on a sync root that holds hidden files and hidden directories. *)
(***************************************************************************)
PathHidden == <<".", "h">>
PathInHiddenDir == <<".", "d", "/", "a">>
PathSubHidden == <<"d", "/", ".", "h">>
ScanDiskPaths == {PathA, PathSubA, PathHidden, PathInHiddenDir, PathSubHidden, PathCustomA}

InitScan ==
    /\ remote \in FileMaps(SmallRemotePaths, MaxRemote)
    /\ head = 1
    /\ \/ /\ disk \in FileMaps(ScanDiskPaths, MaxLocal)
          /\ dirs = DirsOf(disk)
       \/ /\ disk = EmptyMap
          /\ dirs = {}
    /\ disk0 = disk
    /\ pc = "fetching"
    /\ SyncLocalsInit
    /\ PathIdle
    /\ EmitInit
    /\ EnvInit
    /\ FetchIdle

SpecScan == InitScan /\ [][Next]_vars

(***************************************************************************)
(* check_sync_status (lines 567-629).                                      *)
(***************************************************************************)
\* variant: a local disabled copy counts as up to date whatever its id
StatusDownloadDecision_AnyDisabled(path, remote_sha, local) ==
    IF should_skip_path(path)
    THEN [download |-> 0, up_to_date |-> 0]
    ELSE IF path \in DOMAIN local /\ local[path] = remote_sha
    THEN [download |-> 0, up_to_date |-> 1]
    ELSE IF get_disabled_path(path) \in DOMAIN local
    THEN [download |-> 0, up_to_date |-> 1]
    ELSE [download |-> 1, up_to_date |-> 0]

\* one iteration of the loop over remote_files: what is added to
\* files_to_download and to files_up_to_date
StatusDownloadDecision(path, remote_sha, local) ==
    IF should_skip_path(path)
    THEN [download |-> 0, up_to_date |-> 0]
    ELSE IF path \in DOMAIN local /\ local[path] = remote_sha
    THEN [download |-> 0, up_to_date |-> 1]
    ELSE IF /\ get_disabled_path(path) \in DOMAIN local
            /\ local[get_disabled_path(path)] = remote_sha
    THEN [download |-> 0, up_to_date |-> 1]
    ELSE [download |-> 1, up_to_date |-> 0]

\* one iteration of the loop over local_files.keys(): what is added to
\* files_to_delete
StatusDeleteDecision(path, remote_f) ==
    IF should_skip_path(path)
    THEN 0
    ELSE IF path \notin DOMAIN remote_f
    THEN IF /\ is_disabled_file(LastSegment(path))
            /\ get_enabled_path(path) # None
            /\ get_enabled_path(path)[1] \in DOMAIN remote_f
         THEN 0
         ELSE 1
    ELSE 0

\* the counters after the two loops; each key adds 0 or 1
StatusCounts(remote_f, local) ==
    [files_to_download |->
        Cardinality({q \in DOMAIN remote_f :
                        StatusDownloadDecision(q, remote_f[q], local).download = 1}),
     files_up_to_date |->
        Cardinality({q \in DOMAIN remote_f :
                        StatusDownloadDecision(q, remote_f[q], local).up_to_date = 1}),
     files_to_delete |->
        Cardinality({q \in DOMAIN local : StatusDeleteDecision(q, remote_f) = 1})]

\* check_sync_status returns Ok, while no run_sync is in progress: it fetches
\* the remote tree, scans the disk and counts
CheckSyncStatus ==
    /\ pc = "fetching"
    /\ status = None
    /\ RootDir \in dirs
    /\ LET counts == StatusCounts(remote, build_local_file_map(disk))
       IN  status' = Some([latest_commit_sha |-> head,
                           files_to_download |-> counts.files_to_download,
                           files_to_delete |-> counts.files_to_delete,
                           files_up_to_date |-> counts.files_up_to_date,
                           is_up_to_date |-> (counts.files_to_download = 0
                                              /\ counts.files_to_delete = 0)])
    /\ UNCHANGED <<syncVars, pathVars, emitVars, window_ok, run, fetchVars>>

NextStatus ==
    \/ Next
    \/ CheckSyncStatus

SpecStatus == InitSmall /\ [][NextStatus]_vars

(***************************************************************************)
(* The path functions on their own: get_disabled_path and get_enabled_path *)
(* applied to paths of one to MaxSegs segments, each segment a plain name, *)
(* a name with the marker, or the marker alone.                            *)
(***************************************************************************)
Segments == {<<"a">>, <<"-", "a">>, <<"-">>}

\* the segments joined with '/'
RECURSIVE JoinPath(_)
JoinPath(segs) ==
    IF Len(segs) = 1
    THEN segs[1]
    ELSE segs[1] \o <<"/">> \o JoinPath(Tail(segs))

PathInputs ==
    {JoinPath(segs) : segs \in UNION {[1..k -> Segments] : k \in 1..MaxSegs}}

\* no run_sync is in progress
SyncIdle ==
    /\ remote = EmptyMap
    /\ head = 1
    /\ disk = EmptyMap
    /\ dirs = {RootDir}
    /\ disk0 = EmptyMap
    /\ pc = "idle"
    /\ SyncLocalsInit

InitPath ==
    /\ p1 \in PathInputs
    /\ p2 \in PathInputs
    /\ d1 = <<>>
    /\ d2 = <<>>
    /\ e1 = None
    /\ pstep = "input"
    /\ SyncIdle
    /\ EmitInit
    /\ EnvInit
    /\ FetchIdle

\* get_disabled_path applied to both inputs
CallDisabled ==
    /\ pstep = "input"
    /\ d1' = get_disabled_path(p1)
    /\ d2' = get_disabled_path(p2)
    /\ pstep' = "disabled"
    /\ UNCHANGED <<p1, p2, e1, syncVars, emitVars, envVars, fetchVars>>

\* get_enabled_path applied to the disabled path of the first input
CallEnabledOfDisabled ==
    /\ pstep = "disabled"
    /\ e1' = get_enabled_path(d1)
    /\ pstep' = "roundtrip"
    /\ UNCHANGED <<p1, p2, d1, d2, syncVars, emitVars, envVars, fetchVars>>

\* get_enabled_path applied to the first input
CallEnabled ==
    /\ pstep = "input"
    /\ e1' = get_enabled_path(p1)
    /\ pstep' = "enabled"
    /\ UNCHANGED <<p1, p2, d1, d2, syncVars, emitVars, envVars, fetchVars>>

NextPath ==
    \/ CallDisabled
    \/ CallEnabledOfDisabled
    \/ CallEnabled

SpecPath == InitPath /\ [][NextPath]_vars

(***************************************************************************)
(* Vocabulary of the properties.                                           *)
(***************************************************************************)
\* the plan has been computed
Planned == pc \in {"exec", "done"}

ToDownload == {files_to_download[i] : i \in DOMAIN files_to_download}
ToDelete == {files_to_delete[i] : i \in DOMAIN files_to_delete}

\* the path lies under the excluded subtree
Excluded(path) == Contains(path, UserCustoms)

\* the last segment of the path carries the marker
MarkedName(path) == StartsWith(LastSegment(path), "-")

\* the path with the first character of its last segment removed
Unmarked(path) ==
    SubSeq(path, 1, Len(path) - Len(LastSegment(path))) \o Tail(LastSegment(path))

\* the local copy at the plain path has the id of the remote path
PlainMatches(path) ==
    path \in DOMAIN local_files /\ local_files[path] = remote_files[path]

\* the remote paths run_sync counts as skipped
SkippedPaths ==
    {q \in DOMAIN remote_files :
        \/ Excluded(q)
        \/ /\ ~PlainMatches(q)
           /\ get_disabled_path(q) \in DOMAIN local_files
           /\ local_files[get_disabled_path(q)] = remote_files[q]}

(***************************************************************************)
(* Properties of the plan.                                                 *)
(***************************************************************************)
\* C1: when the remote mapping and the local mapping are equal (same paths,
\* same ids), the plan has nothing to download and nothing to delete.
C1_EqualMappingsEmptyPlan ==
    (Planned /\ remote_files = local_files)
        => (files_to_download = <<>> /\ files_to_delete = <<>>)

C1_Witness ==
    /\ pc = "exec"
    /\ remote_files = local_files
    /\ Cardinality(DOMAIN remote_files) >= 2

\* C2: no path containing "user-customs" is ever in toDownload or toDelete,
\* whatever is in the remote tree and on the local disk.
C2_ExcludedNeverPlanned ==
    Planned => \A path \in ToDownload \cup ToDelete : ~Excluded(path)

C2_Witness ==
    /\ pc = "exec"
    /\ PathCustomA \in DOMAIN remote_files
    /\ PathCustomA \in DOMAIN disk
    /\ disk[PathCustomA] # remote_files[PathCustomA]
    /\ files_skipped >= 1

\* C3: a path present only locally that is the disabled variant of a path
\* present in the remote is never in toDelete.
C3_DisabledOfRemoteKept ==
    Planned =>
        \A path \in DOMAIN local_files \ DOMAIN remote_files :
            (MarkedName(path) /\ Unmarked(path) \in DOMAIN remote_files)
                => path \notin ToDelete

C3_Witness ==
    /\ pc = "exec"
    /\ PathSubDA \in DOMAIN local_files
    /\ PathSubDA \notin DOMAIN remote_files
    /\ PathSubA \in DOMAIN remote_files
    /\ files_to_delete # <<>>

\* C4: a path present only locally that is the disabled variant of a path
\* absent from the remote is in toDelete.
C4_DisabledOrphanDeleted ==
    Planned =>
        \A path \in DOMAIN local_files \ DOMAIN remote_files :
            (MarkedName(path) /\ Unmarked(path) \notin DOMAIN remote_files)
                => path \in ToDelete

C4_Witness ==
    /\ pc = "exec"
    /\ PathSubDA \in DOMAIN local_files
    /\ PathSubDA \notin DOMAIN remote_files
    /\ PathSubA \notin DOMAIN remote_files
    /\ PathSubDA \in ToDelete

\* the local disabled variant of the remote path exists with another id
StaleDisabled(path) ==
    /\ get_disabled_path(path) \in DOMAIN local_files
    /\ local_files[get_disabled_path(path)] # remote_files[path]

\* C5 as stated: every remote path whose local disabled variant has another
\* id gets a download to the disabled path and none to the plain path.
C5_Original ==
    Planned =>
        \A path \in DOMAIN remote_files :
            StaleDisabled(path)
                => /\ get_disabled_path(path) \in ToDownload
                   /\ path \notin ToDownload

\* C5 amended: every remote path whose plain local copy is absent or has
\* another id, and whose local disabled variant has another id, gets a
\* download to the disabled path; the plain path is a download target only
\* when it is itself the disabled variant of another remote path.
C5_StaleDisabledTargeted ==
    Planned =>
        \A path \in DOMAIN remote_files :
            (StaleDisabled(path) /\ ~PlainMatches(path))
                => /\ get_disabled_path(path) \in ToDownload
                   /\ (path \in ToDownload
                          => \E q \in DOMAIN remote_files : get_disabled_path(q) = path)

C5_Witness ==
    /\ pc = "exec"
    /\ PathA \in DOMAIN remote_files
    /\ PathA \in DOMAIN local_files
    /\ local_files[PathA] # remote_files[PathA]
    /\ PathDA \in DOMAIN local_files
    /\ local_files[PathDA] # remote_files[PathA]
    /\ files_to_download = <<PathDA>>

\* the local disabled variant of the remote path exists with the same id,
\* and the plain local copy does not match
UpToDateDisabled(path) ==
    /\ ~Excluded(path)
    /\ ~PlainMatches(path)
    /\ get_disabled_path(path) \in DOMAIN local_files
    /\ local_files[get_disabled_path(path)] = remote_files[path]

\* C6 as stated: a remote path with an up-to-date local disabled variant is
\* counted as skipped, and neither it nor its disabled path is in toDownload.
C6_Original ==
    Planned =>
        /\ files_skipped = Cardinality(SkippedPaths)
        /\ \A path \in DOMAIN remote_files :
              UpToDateDisabled(path)
                  => /\ path \notin ToDownload
                     /\ get_disabled_path(path) \notin ToDownload

\* C6 amended: a remote path with an up-to-date local disabled variant is
\* counted as skipped and its own entry schedules no download: the path is in
\* toDownload only when it is the disabled variant of another remote path, and
\* its disabled path is in toDownload only when that is itself a remote path.
C6_UpToDateDisabledSkipped ==
    Planned =>
        /\ files_skipped = Cardinality(SkippedPaths)
        /\ \A path \in DOMAIN remote_files :
              UpToDateDisabled(path)
                  => /\ path \in ToDownload
                        => \E q \in DOMAIN remote_files : get_disabled_path(q) = path
                     /\ get_disabled_path(path) \in ToDownload
                        => get_disabled_path(path) \in DOMAIN remote_files

C6_Witness ==
    /\ pc = "exec"
    /\ PathA \in DOMAIN remote_files
    /\ UpToDateDisabled(PathA)
    /\ files_skipped = 1
    /\ files_to_download = <<>>

(***************************************************************************)
(* Properties of the path functions (specification SpecPath).              *)
(***************************************************************************)
\* C7: get_enabled_path(get_disabled_path(p)) = Some(p) for every path p of
\* one or more segments, segments starting with '-' included, and
\* get_disabled_path is injective.
C7_RoundTripAndInjective ==
    /\ pstep = "roundtrip" => e1 = Some(p1)
    /\ pstep \in {"disabled", "roundtrip"} => (d1 = d2 => p1 = p2)

C7_Witness ==
    /\ pstep = "roundtrip"
    /\ p1 = <<"-", "a", "/", "-", "/", "a">>
    /\ p2 = <<"-", "a", "/", "-", "/", "-", "a">>
    /\ e1 = Some(p1)

\* C8: get_enabled_path returns None for every path whose last segment does
\* not begin with '-', also when an earlier segment begins with '-'.
C8_NoneUnlessNameMarked ==
    (pstep = "enabled" /\ ~MarkedName(p1)) => e1 = None

(***************************************************************************)
(* Properties of the execution of the plan.                                *)
(***************************************************************************)
\* a file that was on disk when run_sync started is gone, or the delete loop
\* has started
DeletionStarted ==
    \/ del_idx > 0
    \/ deleted > 0
    \/ \E f \in DOMAIN disk0 : f \notin DOMAIN disk

\* C9: no local file is removed before every download of the plan has
\* completed; a run that failed in the download loop has removed nothing.
C9_DownloadsBeforeDeletes ==
    /\ DeletionStarted => downloaded = Len(files_to_download)
    /\ (pc = "failed" /\ downloaded < Len(files_to_download)) => ~DeletionStarted

C9_Witness ==
    /\ pc = "exec"
    /\ Len(files_to_download) = 2
    /\ downloaded = 2
    /\ Len(files_to_delete) = 2
    /\ deleted = 1

\* C10: once a download or a delete has failed, run_sync has returned the
\* error: no SyncResult is produced and nothing more is downloaded or deleted.
C10_FailureIsFatal ==
    /\ [](err # None => (pc = "failed" /\ result = None))
    /\ [][err # None => UNCHANGED <<disk, dirs, downloaded, del_idx, deleted,
                                     result, err>>]_vars

C10_Witness ==
    /\ pc = "failed"
    /\ Len(files_to_download) = 2
    /\ downloaded = 1
    /\ err = Error("Failed to download: HTTP", Some(SourcePath(files_to_download[2])))
    /\ files_to_delete # <<>>

(***************************************************************************)
(* Properties of the progress events.                                      *)
(***************************************************************************)
\* the place of a stage in fetching, scanning, comparing, downloading,
\* deleting, complete
StageRank(stage) ==
    CASE stage = "fetching" -> 1
      [] stage = "scanning" -> 2
      [] stage = "comparing" -> 3
      [] stage = "downloading" -> 4
      [] stage = "deleting" -> 5
      [] stage = "complete" -> 6

\* how many of the first i events are of the stage
EventsOfStage(stage, i) ==
    Cardinality({k \in 1..i : events[k].stage = stage})

\* the event is the n-th of its stage and carries n of the length of the list
ItemEventCounts(i, list) ==
    /\ events[i].total = Some(Len(list))
    /\ events[i].current = Some(EventsOfStage(events[i].stage, i))
    /\ EventsOfStage(events[i].stage, i) <= Len(list)

\* C15: the events of one run_sync follow the order fetching, scanning,
\* comparing, downloading, deleting, complete; complete is emitted only on
\* success, as the last event; each downloading or deleting event carries a
\* 1-based current that grows by one per item and the length of its list.
C15_ProgressOrder ==
    /\ \A i, j \in DOMAIN events :
          i < j => StageRank(events[i].stage) <= StageRank(events[j].stage)
    /\ \A i \in DOMAIN events :
          events[i].stage = "complete" => (i = Len(events) /\ result # None)
    /\ result # None => (events # <<>> /\ events[Len(events)].stage = "complete")
    /\ err # None => \A i \in DOMAIN events : events[i].stage # "complete"
    /\ \A i \in DOMAIN events :
          /\ events[i].stage = "downloading" => ItemEventCounts(i, files_to_download)
          /\ events[i].stage = "deleting" => ItemEventCounts(i, files_to_delete)
          /\ events[i].stage \notin {"downloading", "deleting"}
                => (events[i].current = None /\ events[i].total = None)

C15_Witness ==
    /\ pc = "done"
    /\ EventsOfStage("downloading", Len(events)) = 2
    /\ EventsOfStage("deleting", Len(events)) = 2
    /\ events[Len(events)].stage = "complete"

(***************************************************************************)
(* Properties of the outcome of run_sync.                                  *)
(***************************************************************************)
\* run_sync has failed on an item of the plan
ItemFailed ==
    pc = "failed" /\ Len(files_to_download) + Len(files_to_delete) > 0

\* the item of the plan the loops had reached
CurrentItem ==
    IF downloaded < Len(files_to_download)
    THEN files_to_download[downloaded + 1]
    ELSE files_to_delete[del_idx + 1]

\* C18: when a download or a delete of an item fails, the error returned by
\* run_sync carries the path of that item (the target or the source it is
\* fetched from), whatever the cause of the failure.
C18_ErrorCarriesItemPath ==
    ItemFailed =>
        err[1].path \in {Some(CurrentItem), Some(SourcePath(CurrentItem))}

\* the file at the path has the content id
HasId(files, path, id) == path \in DOMAIN files /\ files[path] = id

\* C20: after a successful run_sync, every remote path that is not excluded
\* has its remote id on disk, at the path itself or at its disabled path.
C20_ReconciledAfterSync ==
    pc = "done" =>
        \A path \in DOMAIN remote_files :
            ~Excluded(path)
                => \/ HasId(disk, path, remote_files[path])
                   \/ HasId(disk, get_disabled_path(path), remote_files[path])

\* C11: run_sync invoked again after a successful run, on the same remote,
\* does not fail on the local tree, plans no download and no deletion, and
\* leaves the files on disk as they were.
C11_RerunIsNoOp ==
    run > 1 =>
        /\ err # None => err[1].kind \in {"GitHub API error", "Failed to read"}
        /\ Planned => (files_to_download = <<>> /\ files_to_delete = <<>>)
        /\ disk = disk0

\* C12: after a successful run_sync, every file written by the run has the
\* content id that a remote path it stands for (the path itself, or the path
\* it is the disabled variant of) has in the tree of the returned revision.
C12_WrittenAtReturnedRevision ==
    pc = "done" =>
        /\ result[1].new_commit_sha = commit_sha
        /\ \A k \in 1..downloaded :
              \E q \in DOMAIN remote_files :
                  /\ files_to_download[k] \in {q, get_disabled_path(q)}
                  /\ HasId(disk, files_to_download[k], remote_files[q])

\* the causes for which run_sync returns an error
FailureCauses ==
    {"GitHub API error", "folder not found", "Failed to read",
     "Failed to download file", "Failed to download: HTTP",
     "Failed to read file content", "Failed to create directory",
     "Failed to write file", "Failed to delete"}

\* the number of events run_sync has emitted when it is at the position
EventsAtPosition ==
    CASE pc = "fetching" -> 0
      [] pc = "scanning" -> 3
      [] pc = "comparing" -> 4
      [] pc = "exec" -> 5 + downloaded + del_idx
      [] pc = "done" -> 6 + downloaded + del_idx
      [] pc = "failed" -> Len(events)

\* C17: a progress event that cannot be delivered never aborts the sync:
\* until it returns, run_sync can take its next step whether or not the window
\* delivers; it is at the same position with the same counts whatever was
\* dropped; it returns an error only for a failure of a fetch, a scan, a
\* download or a delete; and it returns the counts of the plan.
C17_DeliveryFailureHarmless ==
    /\ pc \notin {"done", "failed"} => ENABLED Next
    /\ Len(events) = EventsAtPosition
    /\ err # None => err[1].kind \in FailureCauses
    /\ pc = "done" =>
          /\ result[1].files_downloaded = Len(files_to_download)
          /\ result[1].files_deleted = Len(files_to_delete)
          /\ result[1].files_skipped = Cardinality(SkippedPaths)

C17_Witness ==
    /\ pc = "done"
    /\ dropped = Len(events)
    /\ downloaded >= 1
    /\ deleted >= 1

\* C19: check_sync_status leaves the local tree as it is, and the counts it
\* returns are the lengths of the lists run_sync plans from the same remote
\* tree and the same disk; is_up_to_date holds exactly when both are empty.
C19_StatusAgreesWithPlan ==
    /\ (status # None /\ pc = "fetching")
          => (disk = disk0 /\ dirs = DirsOf(disk0))
    /\ (status # None /\ Planned)
          => /\ status[1].files_to_download = Len(files_to_download)
             /\ status[1].files_to_delete = Len(files_to_delete)
             /\ status[1].is_up_to_date
                   <=> (files_to_download = <<>> /\ files_to_delete = <<>>)

C19_Witness ==
    /\ pc = "exec"
    /\ status # None
    /\ status[1].files_to_download = 1
    /\ status[1].files_to_delete = 0
    /\ ~status[1].is_up_to_date
    /\ files_to_download = <<PathDA>>
    /\ PathCustomA \in DOMAIN remote_files

\* the regular files the scan is said to insert: outside the excluded subtree,
\* with a filename that does not begin with '.'
VisibleFiles(files) ==
    {f \in DOMAIN files : ~Excluded(f) /\ ~StartsWith(LastSegment(f), ".")}

\* C16: once the scan has returned, local_files holds exactly the regular
\* files of the sync root that are not excluded and whose filename does not
\* begin with '.', each under its forward-slash relative path with its content
\* id; the scan does not return when the sync root is absent.
C16_ScanInsertsVisibleFiles ==
    pc = "comparing"
       => /\ RootDir \in dirs
          /\ local_files = [f \in VisibleFiles(disk) |-> disk[f]]

\* C13: when the fetch has returned Ok, the mapping handed to run_sync holds
\* every blob below the subtree under its slash-joined path relative to the
\* subtree root, with its content id, and no other key, whichever recursive
\* listings were marked truncated on the way.
C13_FetchedMappingComplete ==
    fpc = "returned" => remote_files = remote

C13_Witness ==
    /\ fpc = "returned"
    /\ trunc = {RootDir, <<"d">>}
    /\ DOMAIN remote_files = {PathSubA, PathDeepA}

\* C14: once a request of the fetch has failed, run_sync has failed with it:
\* no mapping has reached run_sync, nothing is scanned, downloaded or deleted,
\* and the disk is as it was.
C14_FetchFailureIsAtomic ==
    fpc = "failed"
       => /\ pc = "failed"
          /\ err # None
          /\ result = None
          /\ remote_files = EmptyMap
          /\ local_files = EmptyMap
          /\ downloaded = 0
          /\ deleted = 0
          /\ disk = disk0
          /\ dirs = DirsOf(disk0)

C14_Witness ==
    /\ fpc = "failed"
    /\ err = Error("GitHub API error", None)
    /\ file_map # EmptyMap
    /\ Len(stack) = 2

\* C21: no path is both in toDownload and in toDelete of the same plan,
\* whatever the remote tree and the local disk hold.
C21_DownloadsAndDeletesDisjoint ==
    Planned => ToDownload \cap ToDelete = {}

C21_Witness ==
    /\ pc = "exec"
    /\ PathDA \in ToDownload
    /\ PathDA \notin DOMAIN remote_files
    /\ ToDelete # {}

\* C22: toDownload names no destination twice, also when the remote holds
\* both a path and its disabled path.
C22_NoDuplicateTarget ==
    Planned =>
        \A i, j \in DOMAIN files_to_download :
            files_to_download[i] = files_to_download[j] => i = j

\* C23: the sync root still exists after every successful run_sync, and the
\* scan of a following run does not fail with the missing-folder error.
C23_SyncRootSurvives ==
    /\ pc = "done" => RootDir \in dirs
    /\ (run > 1 /\ err # None) => err[1].kind # "folder not found"
=============================================================================
